---------------------------- MODULE Spec2Model ----------------------------
(***************************************************************************)
(* A model of src/primes.c: pi(N) by a segmented, bit-packed sieve of      *)
(* Eratosthenes whose slices run as jobs of a worker pool.                  *)
(*                                                                         *)
(* Scaling.  The source fixes the base at 1048576 values (65536 bytes) and *)
(* switches strategy at 10^12 and 10^15.  A sieve of that size cannot be   *)
(* enumerated, so the three thresholds are scaled together through the     *)
(* single bound BaseBytes; every comparison, rounding and loop is that of  *)
(* the source.  The scaled thresholds keep the relations the code relies   *)
(* on: FixedBase is a multiple of 16, MinValue <= FixedBase, and           *)
(* Trillion < FixedBase^2 < Quadrillion, with the base just above Trillion *)
(* smaller than FixedBase (source: 1000016 < 1048576).                     *)
(*                                                                         *)
(* The worker pool (workers.h: workersInit, workersEnqueueJob, workerSync, *)
(* workersWaitAllJobs, workersDeinit) is not part of the modelled source;  *)
(* its operations are modelled from the specification's sections 4.5, 4.6, *)
(* 5 and 6.                                                                *)
(***************************************************************************)
EXTENDS Integers, Sequences, FiniteSets

\* ------------------------------------------------------------------ bounds
\* bytes of the fixed-size base sieve (source: 1048576 / 16)
BaseBytes == 2
\* worker counts 0..PoolBound are explored for every input value
PoolBound == 2

\* ------------------------------------------------- program constants
\* line 86: the fixed base bound (source value 1048576 = 16 * 65536)
FixedBase == 16 * BaseBytes
\* line 80: above this the base is ceil(sqrt(N)) (source value 10^12,
\* which lies below 1048576^2 and whose root rounds up to less than 1048576)
Trillion == (FixedBase - 16) * (FixedBase - 16) - 56
\* line 76: the largest accepted value (source value 10^15)
Quadrillion == FixedBase * FixedBase + 2 * FixedBase
\* line 89: the smallest accepted value
MinValue == 10
\* line 58: the default worker count
DefaultWorkers == 4
\* line 101: the largest accepted worker count
MaxWorkers == 100
\* line 172: progress is printed for more slices than this
ProgressMin == 1000
\* line 117: the prime 2 is counted before the scan
InitialCount == 1

\* ------------------------------------------------------- integer helpers
Max(a, b) == IF a > b THEN a ELSE b

\* x + (-x & 0xf): x rounded up to a multiple of 16 (lines 82, 91, 216)
RoundUp16(x) == x + ((-x) % 16)

\* (int) ceil (sqrt (x)) (lines 81, 217).  For x < 2^53 the double holds x
\* exactly and sqrt is correctly rounded; the gap between sqrt(k*k + 1) and
\* k exceeds the spacing of doubles near k for k < 2^26, so the result is
\* the least r with r*r >= x.
CeilSqrt(x) == CHOOSE r \in 0..x : r * r >= x /\ (r = 0 \/ (r - 1) * (r - 1) < x)

\* (int) ceil ((double) a / b) (lines 83, 87): the quotients the program
\* forms stay below 2^30 with fractional parts at least 2^-25, so the
\* double division rounds to no integer it should not
CeilDiv(a, b) == (a + b - 1) \div b

Pow2(k) == IF k = 0 THEN 1 ELSE IF k = 1 THEN 2 ELSE IF k = 2 THEN 4
           ELSE IF k = 3 THEN 8 ELSE IF k = 4 THEN 16 ELSE IF k = 5 THEN 32
           ELSE IF k = 6 THEN 64 ELSE 128

\* ------------------------------------------------------------- BitSieve
\* v >> 4
ByteIndex(v) == v \div 16

\* a faulty index: the mask & 0x3 in place of & 0x7
BitIndexNarrow(v) == (v \div 2) % 4

\* (v >> 1) & 0x7
BitIndex(v) == (v \div 2) % 8

\* 1 << ((v >> 1) & 0x7) (lines 115, 222, 224, 227)
BitMask(v) == Pow2(BitIndex(v))

\* (v & 1) << ((v >> 1) & 0x7) (lines 113, 120): no bit for an even v
BaseMask(v) == (v % 2) * Pow2(BitIndex(v))

\* byte & mask, for a mask of at most one bit
AndMask(byte, mask) == IF mask = 0 THEN 0 ELSE ((byte \div mask) % 2) * mask

\* byte | mask, for a mask of one bit
OrMask(byte, mask) == IF AndMask(byte, mask) # 0 THEN byte ELSE byte + mask

\* calloc (1, n): n zero bytes, indexed from 0
ZeroBytes(n) == [b \in 0..(n - 1) |-> 0]

\* buf [v >> 4] |= 1 << ((v >> 1) & 0x7)
MarkComposite(buf, v) ==
    [buf EXCEPT ![ByteIndex(v)] = OrMask(@, BitMask(v))]

\* !(buf [v >> 4] & (1 << ((v >> 1) & 0x7)))
IsUnmarked(buf, v) == AndMask(buf[ByteIndex(v)], BitMask(v)) = 0

\* !(buf [v >> 4] & ((v & 1) << ((v >> 1) & 0x7)))
IsUnmarkedBase(buf, v) == AndMask(buf[ByteIndex(v)], BaseMask(v)) = 0

\* for (c = from; c < limit; c += step) buf [c >> 4] |= ... (lines 114, 223)
RECURSIVE MarkMultiples(_, _, _, _)
MarkMultiples(buf, c, step, limit) ==
    IF c < limit
    THEN MarkMultiples(MarkComposite(buf, c), c + step, step, limit)
    ELSE buf

\* ------------------------------------------------------ BaseSieveBuilder
\* a faulty builder: the marking of tprime's multiples starts after its
\* square
RECURSIVE BaseLoopSkipsSquare(_, _, _)
BaseLoopSkipsSquare(buf, tprime, bound) ==
    IF tprime * tprime < bound
    THEN BaseLoopSkipsSquare(
             IF IsUnmarkedBase(buf, tprime)
             THEN MarkMultiples(buf, tprime * tprime + tprime * 2, tprime * 2,
                                bound)
             ELSE buf,
             tprime + 2, bound)
    ELSE buf

\* lines 112-115
RECURSIVE BaseLoop(_, _, _)
BaseLoop(buf, tprime, bound) ==
    IF tprime * tprime < bound
    THEN BaseLoop(IF IsUnmarkedBase(buf, tprime)
                  THEN MarkMultiples(buf, tprime * tprime, tprime * 2, bound)
                  ELSE buf,
                  tprime + 2, bound)
    ELSE buf

\* lines 108-115: calloc, mark 1, sieve
BuildBaseSieve(bound) ==
    BaseLoop([ZeroBytes(bound \div 16) EXCEPT ![0] = OrMask(@, 1)], 3, bound)

\* lines 119-123: <<prime_count, last_prime>> after the scan
RECURSIVE BaseScan(_, _, _, _, _)
BaseScan(buf, tprime, bound, maxv, acc) ==
    IF tprime < bound /\ tprime < maxv
    THEN BaseScan(buf, tprime + 2, bound, maxv,
                  IF IsUnmarkedBase(buf, tprime)
                  THEN <<acc[1] + 1, tprime>>
                  ELSE acc)
    ELSE acc

\* ------------------------------------------------------------ SlicePlan
\* a faulty plan: the test of line 80 taken as >=
SlicePlanInclusive(n) ==
    IF n > Quadrillion THEN [kind |-> "big", base |-> 0, slices |-> 0]
    ELSE IF n >= Trillion
    THEN LET b == RoundUp16(CeilSqrt(n))
         IN  [kind |-> "ok", base |-> b, slices |-> CeilDiv(n - b, b)]
    ELSE IF n > FixedBase
    THEN [kind |-> "ok", base |-> FixedBase,
          slices |-> CeilDiv(n - FixedBase, FixedBase)]
    ELSE IF n >= MinValue
    THEN [kind |-> "ok", base |-> RoundUp16(n), slices |-> 0]
    ELSE [kind |-> "small", base |-> 0, slices |-> 0]

\* a faulty plan: the branch of line 80 is missing, so that the fixed base
\* serves every value above it
SlicePlanFixedOnly(n) ==
    IF n > Quadrillion THEN [kind |-> "big", base |-> 0, slices |-> 0]
    ELSE IF n > FixedBase
    THEN [kind |-> "ok", base |-> FixedBase,
          slices |-> CeilDiv(n - FixedBase, FixedBase)]
    ELSE IF n >= MinValue
    THEN [kind |-> "ok", base |-> RoundUp16(n), slices |-> 0]
    ELSE [kind |-> "small", base |-> 0, slices |-> 0]

\* lines 76-96: "big" rejects above the limit, "small" below it; otherwise
\* the base bound and the slice count
SlicePlan(n) ==
    IF n > Quadrillion THEN [kind |-> "big", base |-> 0, slices |-> 0]
    ELSE IF n > Trillion
    THEN LET b == RoundUp16(CeilSqrt(n))
         IN  [kind |-> "ok", base |-> b, slices |-> CeilDiv(n - b, b)]
    ELSE IF n > FixedBase
    THEN [kind |-> "ok", base |-> FixedBase,
          slices |-> CeilDiv(n - FixedBase, FixedBase)]
    ELSE IF n >= MinValue
    THEN [kind |-> "ok", base |-> RoundUp16(n), slices |-> 0]
    ELSE [kind |-> "small", base |-> 0, slices |-> 0]

\* ----------------------------------------------------------- SliceSieve
\* a faulty offset: the first multiple of tprime, odd or even
FirstOffsetAnyMultiple(start, tprime) ==
    ((start + tprime - 1) \div tprime) * tprime - start

\* a faulty offset: the second odd multiple of tprime in the slice
FirstOffsetSkipsFirst(start, tprime) ==
    ((((start + tprime - 1) \div (tprime * 2)) * 2) + 3) * tprime - start

\* line 223: the offset in the slice of the first odd multiple of tprime
FirstOffset(start, tprime) ==
    ((((start + tprime - 1) \div (tprime * 2)) * 2) + 1) * tprime - start

\* lines 221-224
RECURSIVE SliceLoop(_, _, _, _, _, _)
SliceLoop(buf, base, tprime, limit, start, count) ==
    IF tprime < limit
    THEN SliceLoop(IF IsUnmarked(base, tprime)
                   THEN MarkMultiples(buf, FirstOffset(start, tprime),
                                      tprime * 2, count)
                   ELSE buf,
                   base, tprime + 2, limit, start, count)
    ELSE buf

\* lines 216-224: the slice's sieve
SliceSieve(base, start, values) ==
    LET slice_count == RoundUp16(values)
    IN  SliceLoop(ZeroBytes(slice_count \div 16), base, 3,
                  CeilSqrt(start + slice_count), start, slice_count)

\* a faulty scan: it runs over the padded length slice_count
RECURSIVE SliceScanPadded(_, _, _, _, _)
SliceScanPadded(buf, tprime, values, start, acc) ==
    IF tprime < RoundUp16(values)
    THEN SliceScanPadded(buf, tprime + 2, values, start,
                         IF IsUnmarked(buf, tprime)
                         THEN <<acc[1] + 1, start + tprime>>
                         ELSE acc)
    ELSE acc

\* lines 219, 226-230: <<num_primes, last_prime>> of the slice
RECURSIVE SliceScan(_, _, _, _, _)
SliceScan(buf, tprime, values, start, acc) ==
    IF tprime < values
    THEN SliceScan(buf, tprime + 2, values, start,
                   IF IsUnmarked(buf, tprime)
                   THEN <<acc[1] + 1, start + tprime>>
                   ELSE acc)
    ELSE acc

\* lines 215-230: what one slice job computes before it synchronizes
SliceResult(base, start, values) ==
    SliceScan(SliceSieve(base, start, values), 1, values, start, <<0, 0>>)


\* --------------------------------------------------------- int arithmetic
\* the largest value of an int (slice, num_slices and percent are int,
\* lines 58, 151, 173)
IntMax == 2147483647

\* a / b in C for b > 0: the quotient is truncated toward zero
TruncDiv(a, b) == IF a >= 0 THEN a \div b ELSE -(((-(a + b)) \div b) + 1)

\* slice * 100 + (num_slices / 2) exceeds IntMax
ProgressOverflows(s, n) == s > (IntMax - (n \div 2)) \div 100

\* the percentage of a build whose int arithmetic wraps: the sum less 2^32,
\* which is 2 * IntMax + 2, divided by num_slices
WrappedPercent(s, n) ==
    TruncDiv(((((s - (IntMax \div 100)) * 100) + (n \div 2)) - IntMax)
                - ((IntMax % 100) + 2),
             n)

\* k * n <= s * 100 + (n / 2), computed without a product above IntMax
PercentAtLeast(k, s, n) ==
    k * (n \div 100) - ((((n \div 2) - k * (n % 100))) \div 100) <= s

\* the percentage of a build that forms the sum in a wider register
WidePercent(s, n) ==
    CHOOSE k \in 0..100 : PercentAtLeast(k, s, n) /\ ~PercentAtLeast(k + 1, s, n)

\* (slice * 100 + (num_slices / 2)) / num_slices (line 173): the values the
\* build can produce; the overflow of a signed int is undefined
ProgressPercent(s, n) ==
    IF ProgressOverflows(s, n)
    THEN {WrappedPercent(s, n), WidePercent(s, n)}
    ELSE {(s * 100 + (n \div 2)) \div n}

\* =========================================================== the program
VARIABLES
    args,               \* the command line: argc, argv [1], argv [2]
    pc,                 \* where main is
    max_prime,          \* line 59
    max_base_prime,     \* line 58
    num_slices,         \* line 58
    num_workers,        \* line 58
    primes,             \* line 108: the base sieve's bytes
    primes_mem,         \* "none", "live" or "freed": the base sieve's storage
    prime_count,        \* line 117: the shared counter
    last_prime,         \* line 117: the shared last prime
    pool,               \* line 146: the worker pool
    slice,              \* line 151: the loop's index
    progress_percent,   \* line 147
    jobs,               \* one record per job context made at line 152
    output,             \* what was printed on stdout, in order
    exit_code,          \* main's return value, -1 while it runs
    overtaken,          \* history: some slice finished its sieving before an
                        \* earlier one
    marked,             \* history: the values whose bit was set one by one
                        \* in a sieve under construction, in order
    failed_alloc        \* history: "none", or the allocation that returned
                        \* NULL: "base", "context" or "slice"

vars == <<args, pc, max_prime, max_base_prime, num_slices, num_workers,
          primes, primes_mem, prime_count, last_prime, pool, slice,
          progress_percent, jobs, output, exit_code, overtaken, marked, failed_alloc>>

\* ---------------------------------------------------------------- inputs
\* the values of argv [1] that are explored with every small worker count:
\* the unsliced values and those of a few slices
InputValues ==
    ((MinValue - 1)..(2 * FixedBase + 8))
    \cup {k * FixedBase + d : k \in 3..4, d \in {0, 1, 13}}
    \cup {Trillion + 1}

\* the values around the thresholds, of many slices, explored with no
\* worker and with one
ThresholdValues ==
    {Trillion - 1, Trillion, Trillion + 4,
     (FixedBase - 16) * (FixedBase - 16),
     (FixedBase - 16) * (FixedBase - 16) + 1,
     FixedBase * FixedBase, FixedBase * FixedBase + 1,
     Quadrillion - 1, Quadrillion, Quadrillion + 1}

\* the values explored on the calling thread alone (no worker): one in
\* seven of all the values the program accepts
SequentialValues == {n \in MinValue..Quadrillion : n % 7 = 3}

\* the values explored with the default pool and with the extreme counts
EdgeValues ==
    {MinValue - 1, MinValue, FixedBase, FixedBase + 1, 2 * FixedBase + 5,
     4 * FixedBase + 13, Quadrillion + 1}

Inputs ==
    {[argc |-> 1, value |-> 0, workers |-> 0]}
    \cup {[argc |-> 3, value |-> n, workers |-> w] :
            n \in InputValues, w \in 0..PoolBound}
    \cup {[argc |-> 3, value |-> n, workers |-> w] :
            n \in ThresholdValues, w \in {0, 1}}
    \cup {[argc |-> 3, value |-> n, workers |-> w] :
            n \in SequentialValues, w \in {0}}
    \cup {[argc |-> 2, value |-> n, workers |-> 0] : n \in EdgeValues}
    \cup {[argc |-> 3, value |-> n, workers |-> w] :
            n \in EdgeValues, w \in {-1, MaxWorkers, MaxWorkers + 1}}

\* ------------------------------------------------------------------ Init
\* lines 56-59: num_slices = 0 and num_workers = 4; the other locals hold no
\* value yet (0 stands for it; none is read before it is assigned:
\* last_prime is stored by line 121 for the prime 3 at the latest, since
\* every accepted max_prime is at least 10)
InitWith(inputs) ==
    /\ args \in inputs
    /\ pc = "args"
    /\ max_prime = 0
    /\ max_base_prime = 0
    /\ num_slices = 0
    /\ num_workers = DefaultWorkers
    /\ primes = <<>>
    /\ primes_mem = "none"
    /\ prime_count = 0
    /\ last_prime = 0
    /\ pool = [live |-> FALSE, size |-> 0]
    /\ slice = 0
    /\ progress_percent = -1
    /\ jobs = <<>>
    /\ output = <<>>
    /\ exit_code = -1
    /\ overtaken = FALSE
    /\ marked = <<>>
    /\ failed_alloc = "none"

Init == InitWith(Inputs)

\* return code from main
Exit(code) == pc' = "exit" /\ exit_code' = code

\* ------------------------------------------------------- main, lines 65-104
\* lines 65-72
ParseArgs ==
    /\ pc = "args"
    /\ IF args.argc < 2
       THEN /\ output' = Append(output, [kind |-> "usage"])
            /\ Exit(0)
            /\ UNCHANGED max_prime
       ELSE /\ max_prime' = args.value
            /\ pc' = "plan"
            /\ UNCHANGED <<output, exit_code>>
    /\ UNCHANGED <<args, max_base_prime, num_slices, num_workers, primes,
                   primes_mem, prime_count, last_prime, pool, slice,
                   progress_percent, jobs,
                   overtaken, marked, failed_alloc>>

\* lines 76-96
Plan ==
    /\ pc = "plan"
    /\ LET p == SlicePlan(max_prime)
       IN  IF p.kind = "ok"
           THEN /\ max_base_prime' = p.base
                /\ num_slices' = p.slices
                /\ pc' = "workers"
                /\ UNCHANGED <<output, exit_code>>
           ELSE /\ output' = Append(output, [kind |-> p.kind])
                /\ Exit(1)
                /\ UNCHANGED <<max_base_prime, num_slices>>
    /\ UNCHANGED <<args, max_prime, num_workers, primes, primes_mem,
                   prime_count, last_prime, pool, slice, progress_percent,
                   jobs,
                   overtaken, marked, failed_alloc>>

\* a faulty test: the two bounds joined by && instead of ||
WorkersInRangeLax(n) == ~(n < 0 /\ n > MaxWorkers)

\* line 101
WorkersInRange(n) == ~(n < 0 \/ n > MaxWorkers)

\* lines 98-104
CheckWorkers ==
    /\ pc = "workers"
    /\ LET n == IF args.argc > 2 THEN args.workers ELSE num_workers
       IN  /\ num_workers' = n
           /\ IF WorkersInRange(n)
              THEN /\ pc' = "base"
                   /\ UNCHANGED <<output, exit_code>>
              ELSE /\ output' = Append(output, [kind |-> "workers"])
                   /\ Exit(1)
    /\ UNCHANGED <<args, max_prime, max_base_prime, num_slices, primes,
                   primes_mem, prime_count, last_prime, pool, slice,
                   progress_percent, jobs,
                   overtaken, marked, failed_alloc>>

\* ------------------------------------------------------ main, lines 106-140
\* lines 108-115
BuildBase ==
    /\ pc = "base"
    /\ primes' = BuildBaseSieve(max_base_prime)
    /\ primes_mem' = "live"
    /\ pc' = "scan"
    /\ UNCHANGED <<args, max_prime, max_base_prime, num_slices, num_workers,
                   prime_count, last_prime, pool, slice, progress_percent,
                   jobs, output, exit_code,
                   overtaken, marked, failed_alloc>>

\* lines 117-123
ScanBase ==
    /\ pc = "scan"
    /\ LET r == BaseScan(primes, 3, max_base_prime, max_prime,
                         <<InitialCount, last_prime>>)
       IN  /\ prime_count' = r[1]
           /\ last_prime' = r[2]
    /\ pc' = "report_base"
    /\ UNCHANGED <<args, max_prime, max_base_prime, num_slices, num_workers,
                   primes, primes_mem, pool, slice, progress_percent, jobs,
                   output, exit_code,
                   overtaken, marked, failed_alloc>>

\* lines 125-140, and the test of line 145
ReportBase ==
    /\ pc = "report_base"
    /\ IF num_slices # 0
       THEN /\ output' = Append(output,
                [kind |-> "base", count |-> prime_count,
                 bound |-> max_base_prime, last |-> last_prime])
            /\ pc' = "init"
       ELSE /\ output' = Append(output,
                [kind |-> "final", count |-> prime_count,
                 bound |-> max_prime, last |-> last_prime])
            /\ pc' = "free"
    /\ UNCHANGED <<args, max_prime, max_base_prime, num_slices, num_workers,
                   primes, primes_mem, prime_count, last_prime, pool, slice,
                   progress_percent, jobs, exit_code,
                   overtaken, marked, failed_alloc>>

\* ------------------------------------------------------- the worker pool
\* workersInit (n): a pool of n worker threads
WorkersInit(n) == [live |-> TRUE, size |-> n]

\* the jobs that occupy a worker thread
BusyWorkers == {i \in 1..Len(jobs) : jobs[i].thread = "worker" /\ jobs[i].pc # "done"}

\* workersEnqueueJob runs the job on the calling thread: asked for by
\* DontUseWorkerThread, and always in a pool of no threads
RunsOnCaller(mode) == mode = "inline" \/ pool.size = 0

\* workersEnqueueJob (WaitForAvailableWorkerThread) returns once a worker
\* thread has taken the job, and blocks while none is free
WorkerAvailable == Cardinality(BusyWorkers) < pool.size

\* workerSync: the calling job goes on once every job enqueued before it
\* has completed
WorkerSyncPassed(i) == \A j \in 1..(i - 1) : jobs[j].pc = "done"

\* workersWaitAllJobs returns once every enqueued job has completed
AllJobsDone == \A j \in 1..Len(jobs) : jobs[j].pc = "done"

\* ------------------------------------------------------ main, lines 145-199
\* lines 145-149, and the initialisation of the loop of line 151
InitWorkers ==
    /\ pc = "init"
    /\ pool' = WorkersInit(num_workers)
    /\ progress_percent' = -1
    /\ output' = Append(output, [kind |-> "processing", slices |-> num_slices,
                                 threads |-> num_workers])
    /\ slice' = 1
    /\ pc' = "loop"
    /\ UNCHANGED <<args, max_prime, max_base_prime, num_slices, num_workers,
                   primes, primes_mem, prime_count, last_prime, jobs,
                   exit_code,
                   overtaken, marked, failed_alloc>>

\* a faulty test: the loop stops one slice early
LoopStopsEarly(s, n) == s < n

\* line 151: the loop's test
LoopContinues(s, n) == s <= n

LoopTest ==
    /\ pc = "loop"
    /\ pc' = IF LoopContinues(slice, num_slices) THEN "make" ELSE "waitall"
    /\ UNCHANGED <<args, max_prime, max_base_prime, num_slices, num_workers,
                   primes, primes_mem, prime_count, last_prime, pool, slice,
                   progress_percent, jobs, output, exit_code,
                   overtaken, marked, failed_alloc>>

\* line 155
SliceStart(s) == max_base_prime * s

\* a faulty loop: the last slice is given a full window as well
SliceValuesFull(s) == max_base_prime

\* lines 163-170: the last slice holds the leftover values
SliceValues(s) ==
    IF s = num_slices THEN max_prime - SliceStart(s) ELSE max_base_prime

\* lines 165, 169: how the job is enqueued
SliceMode(s) == IF s = num_slices THEN "inline" ELSE "wait"

\* lines 154-168: the context of slice s, and the job's state before it
\* is enqueued
JobContext(s) ==
    [start |-> SliceStart(s), values |-> SliceValues(s),
     mode |-> SliceMode(s), pc |-> "new", thread |-> "none",
     sieve |-> "none", bits |-> <<>>, num |-> 0, last |-> 0, tmp |-> 0,
     merges |-> 0]

\* lines 152-164, 168: the job's context
MakeJob ==
    /\ pc = "make"
    /\ jobs' = Append(jobs, JobContext(slice))
    /\ pc' = "submit"
    /\ UNCHANGED <<args, max_prime, max_base_prime, num_slices, num_workers,
                   primes, primes_mem, prime_count, last_prime, pool, slice,
                   progress_percent, output, exit_code,
                   overtaken, marked, failed_alloc>>

\* lines 165, 169: workersEnqueueJob
Submit ==
    /\ pc = "submit"
    /\ IF RunsOnCaller(jobs[slice].mode)
       THEN /\ jobs' = [jobs EXCEPT ![slice].pc = "run", ![slice].thread = "main"]
            /\ pc' = "inline"
       ELSE /\ WorkerAvailable
            /\ jobs' = [jobs EXCEPT ![slice].pc = "run", ![slice].thread = "worker"]
            /\ pc' = "progress"
    /\ UNCHANGED <<args, max_prime, max_base_prime, num_slices, num_workers,
                   primes, primes_mem, prime_count, last_prime, pool, slice,
                   progress_percent, output, exit_code,
                   overtaken, marked, failed_alloc>>

\* workersEnqueueJob returns from a job run on the calling thread
InlineReturn ==
    /\ pc = "inline"
    /\ jobs[slice].pc = "done"
    /\ pc' = "progress"
    /\ UNCHANGED <<args, max_prime, max_base_prime, num_slices, num_workers,
                   primes, primes_mem, prime_count, last_prime, pool, slice,
                   progress_percent, jobs, output, exit_code,
                   overtaken, marked, failed_alloc>>

\* lines 172-180, and the ++slice of line 151
Progress ==
    /\ pc = "progress"
    /\ progress_percent' \in
          IF num_slices > ProgressMin
          THEN ProgressPercent(slice, num_slices)
          ELSE {progress_percent}
    /\ slice' = slice + 1
    /\ pc' = "loop"
    /\ UNCHANGED <<args, max_prime, max_base_prime, num_slices, num_workers,
                   primes, primes_mem, prime_count, last_prime, pool, jobs,
                   output, exit_code,
                   overtaken, marked, failed_alloc>>

\* line 184
WaitAllJobs ==
    /\ pc = "waitall"
    /\ AllJobsDone
    /\ pc' = "deinit"
    /\ UNCHANGED <<args, max_prime, max_base_prime, num_slices, num_workers,
                   primes, primes_mem, prime_count, last_prime, pool, slice,
                   progress_percent, jobs, output, exit_code,
                   overtaken, marked, failed_alloc>>

\* line 185
Deinit ==
    /\ pc = "deinit"
    /\ pool' = [pool EXCEPT !.live = FALSE]
    /\ pc' = "report"
    /\ UNCHANGED <<args, max_prime, max_base_prime, num_slices, num_workers,
                   primes, primes_mem, prime_count, last_prime, slice,
                   progress_percent, jobs, output, exit_code,
                   overtaken, marked, failed_alloc>>

\* lines 189-195
Report ==
    /\ pc = "report"
    /\ output' = Append(output,
          [kind |-> "final", count |-> prime_count, bound |-> max_prime,
           last |-> last_prime])
    /\ pc' = "free"
    /\ UNCHANGED <<args, max_prime, max_base_prime, num_slices, num_workers,
                   primes, primes_mem, prime_count, last_prime, pool, slice,
                   progress_percent, jobs, exit_code,
                   overtaken, marked, failed_alloc>>

\* lines 198-199
FreeBase ==
    /\ pc = "free"
    /\ primes_mem' = "freed"
    /\ Exit(0)
    /\ UNCHANGED <<args, max_prime, max_base_prime, num_slices, num_workers,
                   primes, prime_count, last_prime, pool, slice,
                   progress_percent, jobs, output,
                   overtaken, marked, failed_alloc>>

\* ------------------------------------------------ prime_slice, lines 213-259
\* a faulty build: the call of workerSync is left out
SyncLeftOut == FALSE

\* a faulty build: no call of workerSync either
SyncRemoved == FALSE

\* a faulty build: prime_slice merges without waiting at workerSync
SyncSkipped == FALSE

\* lines 240-241: the build takes the branch that calls workerSync
UsesSync == TRUE

\* lines 215-230: the slice is sieved from the base into its own storage
\* (bits) and counted; overtaken records that an earlier slice had not
\* finished its sieving by then
JobSieve(i) ==
    /\ jobs[i].pc = "run"
    /\ primes_mem = "live"
    /\ LET buf == SliceSieve(primes, jobs[i].start, jobs[i].values)
           r == SliceScan(buf, 1, jobs[i].values, jobs[i].start, <<0, 0>>)
       IN  jobs' = [jobs EXCEPT ![i].pc = "sync", ![i].sieve = "live",
                                ![i].bits = buf,
                                ![i].num = r[1], ![i].last = r[2]]
    /\ overtaken' = (overtaken \/ \E j \in 1..(i - 1) : jobs[j].pc = "run")
    /\ UNCHANGED <<args, pc, max_prime, max_base_prime, num_slices,
                   num_workers, primes, primes_mem, prime_count, last_prime,
                   pool, slice, progress_percent, output, exit_code,
                   marked, failed_alloc>>

\* line 241
JobSync(i) ==
    /\ jobs[i].pc = "sync"
    /\ UsesSync => WorkerSyncPassed(i)
    /\ jobs' = [jobs EXCEPT ![i].pc = "load"]
    /\ UNCHANGED <<args, pc, max_prime, max_base_prime, num_slices,
                   num_workers, primes, primes_mem, prime_count, last_prime,
                   pool, slice, progress_percent, output, exit_code,
                   overtaken, marked, failed_alloc>>

\* line 242: the read of *cxt->total_primes
JobLoad(i) ==
    /\ jobs[i].pc = "load"
    /\ jobs' = [jobs EXCEPT ![i].pc = "store", ![i].tmp = prime_count]
    /\ UNCHANGED <<args, pc, max_prime, max_base_prime, num_slices,
                   num_workers, primes, primes_mem, prime_count, last_prime,
                   pool, slice, progress_percent, output, exit_code,
                   overtaken, marked, failed_alloc>>

\* line 242: the write of *cxt->total_primes
JobStore(i) ==
    /\ jobs[i].pc = "store"
    /\ prime_count' = jobs[i].tmp + jobs[i].num
    /\ jobs' = [jobs EXCEPT ![i].pc = "last"]
    /\ UNCHANGED <<args, pc, max_prime, max_base_prime, num_slices,
                   num_workers, primes, primes_mem, last_prime, pool, slice,
                   progress_percent, output, exit_code,
                   overtaken, marked, failed_alloc>>

\* line 243: the value stored in *cxt->last_prime
MergedLast(old, found) == found

\* line 243; merges counts the merges this job has completed
JobLast(i) ==
    /\ jobs[i].pc = "last"
    /\ last_prime' = MergedLast(last_prime, jobs[i].last)
    /\ jobs' = [jobs EXCEPT ![i].pc = "free", ![i].merges = @ + 1]
    /\ UNCHANGED <<args, pc, max_prime, max_base_prime, num_slices,
                   num_workers, primes, primes_mem, prime_count, pool, slice,
                   progress_percent, output, exit_code,
                   overtaken, marked, failed_alloc>>

\* a faulty job: it returns without freeing the slice's storage
AfterFreeLeak(job) == [job EXCEPT !.pc = "done"]

\* a faulty job: it frees the slice's storage and never returns
AfterFreeNoReturn(job) == [job EXCEPT !.sieve = "freed", !.bits = <<>>]

\* lines 256-258: the slice's storage is freed and the job returns
AfterFree(job) ==
    [job EXCEPT !.pc = "done", !.sieve = "freed", !.bits = <<>>]

\* lines 256-258
JobFree(i) ==
    /\ jobs[i].pc = "free"
    /\ jobs' = [jobs EXCEPT ![i] = AfterFree(@)]
    /\ UNCHANGED <<args, pc, max_prime, max_base_prime, num_slices,
                   num_workers, primes, primes_mem, prime_count, last_prime,
                   pool, slice, progress_percent, output, exit_code,
                   overtaken, marked, failed_alloc>>

\* ------------------------------------------- allocations that return NULL
\* No result of calloc or malloc is tested (lines 108, 152, 218). After a
\* NULL the thread goes on to its first store through the pointer
\* (primes [0] at line 110, the context's first field at line 154, the
\* slice's byte of the first odd multiple of 3 at line 224) while the other
\* threads keep running. That store is undefined: it either traps, which
\* ends the process with every thread of it, or it lands in the storage at
\* address 0 and the thread goes on with that storage as its buffer. The
\* storage was not cleared by calloc; its bits are taken all clear or all
\* set. One allocation fails per run.

\* n bytes with every bit set; marking changes none of them
FullBytes(n) == [b \in 0..(n - 1) |-> 255]

\* line 108: calloc returns NULL for the base sieve
BuildBaseFails ==
    /\ pc = "base"
    /\ failed_alloc = "none"
    /\ failed_alloc' = "base"
    /\ pc' = "base_null"
    /\ UNCHANGED <<args, max_prime, max_base_prime, num_slices, num_workers,
                   primes, primes_mem, prime_count, last_prime, pool, slice,
                   progress_percent, jobs, output, exit_code,
                   overtaken, marked>>

\* lines 110-115 with primes = NULL
BaseNullStore ==
    /\ pc = "base_null"
    /\ \/ /\ pc' = "crashed"
          /\ UNCHANGED <<primes, primes_mem>>
       \/ /\ primes' \in {BuildBaseSieve(max_base_prime),
                          FullBytes(max_base_prime \div 16)}
          /\ primes_mem' = "live"
          /\ pc' = "scan"
    /\ UNCHANGED <<args, max_prime, max_base_prime, num_slices, num_workers,
                   prime_count, last_prime, pool, slice, progress_percent,
                   jobs, output, exit_code,
                   overtaken, marked, failed_alloc>>

\* line 152: malloc returns NULL for a job context
MakeJobFails ==
    /\ pc = "make"
    /\ failed_alloc = "none"
    /\ failed_alloc' = "context"
    /\ pc' = "make_null"
    /\ UNCHANGED <<args, max_prime, max_base_prime, num_slices, num_workers,
                   primes, primes_mem, prime_count, last_prime, pool, slice,
                   progress_percent, jobs, output, exit_code,
                   overtaken, marked>>

\* lines 154-168 with interface = NULL
ContextNullStore ==
    /\ pc = "make_null"
    /\ \/ /\ pc' = "crashed"
          /\ UNCHANGED jobs
       \/ /\ jobs' = Append(jobs, JobContext(slice))
          /\ pc' = "submit"
    /\ UNCHANGED <<args, max_prime, max_base_prime, num_slices, num_workers,
                   primes, primes_mem, prime_count, last_prime, pool, slice,
                   progress_percent, output, exit_code,
                   overtaken, marked, failed_alloc>>

\* line 218: calloc returns NULL for the sieve of slice i
JobSieveFails(i) ==
    /\ pc # "crashed"
    /\ jobs[i].pc = "run"
    /\ failed_alloc = "none"
    /\ failed_alloc' = "slice"
    /\ jobs' = [jobs EXCEPT ![i].pc = "null"]
    /\ UNCHANGED <<args, pc, max_prime, max_base_prime, num_slices,
                   num_workers, primes, primes_mem, prime_count, last_prime,
                   pool, slice, progress_percent, output, exit_code,
                   overtaken, marked>>

\* lines 221-230 with slice_primes = NULL
SliceNullStore(i) ==
    /\ pc # "crashed"
    /\ jobs[i].pc = "null"
    /\ \/ /\ pc' = "crashed"
          /\ UNCHANGED jobs
       \/ /\ \E buf \in {SliceSieve(primes, jobs[i].start, jobs[i].values),
                           FullBytes(RoundUp16(jobs[i].values) \div 16)} :
                LET r == SliceScan(buf, 1, jobs[i].values, jobs[i].start,
                                   <<0, 0>>)
                IN  jobs' = [jobs EXCEPT ![i].pc = "sync",
                                         ![i].sieve = "live",
                                         ![i].bits = buf,
                                         ![i].num = r[1], ![i].last = r[2]]
          /\ UNCHANGED pc
    /\ UNCHANGED <<args, max_prime, max_base_prime, num_slices, num_workers,
                   primes, primes_mem, prime_count, last_prime, pool, slice,
                   progress_percent, output, exit_code,
                   overtaken, marked, failed_alloc>>

AllocFails ==
    \/ BuildBaseFails
    \/ BaseNullStore
    \/ MakeJobFails
    \/ ContextNullStore
    \/ \E i \in 1..Len(jobs) : JobSieveFails(i)
    \/ \E i \in 1..Len(jobs) : SliceNullStore(i)

\* ------------------------------------------------------------ the system
Main ==
    \/ ParseArgs
    \/ Plan
    \/ CheckWorkers
    \/ BuildBase
    \/ ScanBase
    \/ ReportBase
    \/ InitWorkers
    \/ LoopTest
    \/ MakeJob
    \/ Submit
    \/ InlineReturn
    \/ Progress
    \/ WaitAllJobs
    \/ Deinit
    \/ Report
    \/ FreeBase

\* the steps of job i, while the process lives
Job(i) ==
    /\ pc # "crashed"
    /\ \/ JobSieve(i)
       \/ JobSync(i)
       \/ JobLoad(i)
       \/ JobStore(i)
       \/ JobLast(i)
       \/ JobFree(i)

SliceJobs == \E i \in 1..Len(jobs) : Job(i)

Next == Main \/ SliceJobs

Spec == Init /\ [][Next]_vars

\* the runs whose termination is explored: every strategy of the plan, the
\* pool sizes 0..PoolBound and the default pool
FairInputs ==
    {[argc |-> 3, value |-> n, workers |-> w] :
        n \in {MinValue, FixedBase + 1, 4 * FixedBase + 13},
        w \in 0..PoolBound}
    \cup {[argc |-> 3, value |-> n, workers |-> w] :
            n \in {Trillion + 1}, w \in {0}}
    \cup {[argc |-> 2, value |-> n, workers |-> 0] :
            n \in {MinValue - 1, 3 * FixedBase}}
    \cup {[argc |-> 3, value |-> n, workers |-> w] :
            n \in {3 * FixedBase + 1, Quadrillion + 1},
            w \in {-1, MaxWorkers}}
    \cup {[argc |-> 1, value |-> 0, workers |-> 0]}

\* the operating system schedules main and every worker thread fairly
FairSpec ==
    /\ InitWith(FairInputs)
    /\ [][Next]_vars
    /\ WF_vars(Main)
    /\ WF_vars(SliceJobs)

\* the largest base sieve, in bytes, of the runs that check the builder
SieveBytes == 6

\* unsliced runs about to build their base sieve: below line 85's threshold
\* the base bound is max_prime rounded up to a multiple of 16 (lines 89-92)
BaseInit ==
    /\ \E n \in MinValue..(16 * SieveBytes) :
          /\ args = [argc |-> 3, value |-> n, workers |-> 0]
          /\ max_prime = n
          /\ max_base_prime = RoundUp16(n)
    /\ pc = "base"
    /\ num_slices = 0
    /\ num_workers = 0
    /\ primes = <<>>
    /\ primes_mem = "none"
    /\ prime_count = 0
    /\ last_prime = 0
    /\ pool = [live |-> FALSE, size |-> 0]
    /\ slice = 0
    /\ progress_percent = -1
    /\ jobs = <<>>
    /\ output = <<>>
    /\ exit_code = -1
    /\ overtaken = FALSE
    /\ marked = <<>>
    /\ failed_alloc = "none"

BaseNext == BuildBase \/ ScanBase \/ ReportBase \/ FreeBase

BaseSpec == BaseInit /\ [][BaseNext]_vars

\* the largest sieve, in bytes, and the most marks of the runs that check
\* single marks
BitBytes == 2
MaxMarks == 2

\* a sieve of 1..BitBytes zeroed bytes in which single values are about to
\* be marked (the state of line 108, before the loops of lines 112-115)
BitInit ==
    /\ \E n \in 1..BitBytes :
          /\ args = [argc |-> 3, value |-> 16 * n, workers |-> 0]
          /\ max_prime = 16 * n
          /\ max_base_prime = 16 * n
          /\ primes = ZeroBytes(n)
    /\ pc = "base"
    /\ num_slices = 0
    /\ num_workers = 0
    /\ primes_mem = "live"
    /\ prime_count = 0
    /\ last_prime = 0
    /\ pool = [live |-> FALSE, size |-> 0]
    /\ slice = 0
    /\ progress_percent = -1
    /\ jobs = <<>>
    /\ output = <<>>
    /\ exit_code = -1
    /\ overtaken = FALSE
    /\ marked = <<>>
    /\ failed_alloc = "none"

\* lines 115, 224: the bit of one odd value below the sieve's range is set
MarkValue ==
    /\ pc = "base"
    /\ primes_mem = "live"
    /\ Len(marked) < MaxMarks
    /\ \E v \in 1..(max_base_prime - 1) :
          /\ v % 2 = 1
          /\ primes' = MarkComposite(primes, v)
          /\ marked' = Append(marked, v)
    /\ UNCHANGED <<args, pc, max_prime, max_base_prime, num_slices,
                   num_workers, primes_mem, prime_count, last_prime, pool,
                   slice, progress_percent, jobs, output, exit_code,
                   overtaken, failed_alloc>>

BitNext == MarkValue

BitSpec == BitInit /\ [][BitNext]_vars

\* plans of the source's own scale, <<max_base_prime, num_slices>> as lines
\* 76-87 compute them: for max_prime = 1002 * 2^20, 2^31 - 1, 10^12,
\* 2 * 10^14, 456591701783953 and 10^15
ProgressPlans ==
    {<<1048576, 1001>>, <<1048576, 2047>>, <<1048576, 953674>>,
     <<14142144, 14142127>>, <<21368016, 21367997>>, <<31622784, 31622769>>}

\* the slice indices tried for a run of n slices: the first ones, the
\* middle, those around the first whose sum exceeds IntMax, and the last
ProgressSlices(n) ==
    LET first == ((IntMax - (n \div 2)) \div 100) + 1
    IN  {s \in (1..6) \cup ((n \div 2 - 2)..(n \div 2 + 2))
                \cup ((first - 3)..(first + 3)) \cup ((n - 5)..n) : s <= n}

\* the loop of line 151 after slice has been enqueued, at the source's own
\* scale; max_prime, the job contexts and the sieves of such a run are
\* beyond the checker's integers and sequences and are not read by the
\* step of lines 172-179, so they stay at their initial values
ProgressInit ==
    /\ \E p \in ProgressPlans :
          /\ max_base_prime = p[1]
          /\ num_slices = p[2]
          /\ slice \in ProgressSlices(p[2])
    /\ \E w \in {0, DefaultWorkers} :
          /\ args = [argc |-> 3, value |-> 0, workers |-> w]
          /\ num_workers = w
          /\ pool = [live |-> TRUE, size |-> w]
    /\ progress_percent \in {-1, 0}
    /\ pc = "progress"
    /\ max_prime = 0
    /\ primes = <<>>
    /\ primes_mem = "live"
    /\ prime_count = 0
    /\ last_prime = 0
    /\ jobs = <<>>
    /\ output = <<>>
    /\ exit_code = -1
    /\ overtaken = FALSE
    /\ marked = <<>>
    /\ failed_alloc = "none"

ProgressNext == Progress

ProgressSpec == ProgressInit /\ [][ProgressNext]_vars

\* the runs in which one allocation may return NULL; those of Spec and
\* FairSpec are the runs in which every allocation succeeds
AllocSpec == InitWith(FairInputs) /\ [][Next \/ AllocFails]_vars

\* the slice plan alone, for every value of argv [1] up to beyond the limit
PlanInputs ==
    {[argc |-> 3, value |-> n, workers |-> w] :
        n \in 0..(Quadrillion + 2), w \in {0}}

PlanInit == InitWith(PlanInputs)

PlanNext == ParseArgs \/ Plan \/ CheckWorkers

PlanSpec == PlanInit /\ [][PlanNext]_vars


\* ============================================================ properties
\* the integer part of the square root
RefRoot(n) == CHOOSE r \in 0..n : r * r <= n /\ (r + 1) * (r + 1) > n

\* trial division
RefIsPrime(n) == n >= 2 /\ \A d \in 2..RefRoot(n) : n % d # 0

\* pi(n): the number of primes strictly less than n
RefPi(n) == Cardinality({p \in 2..(n - 1) : RefIsPrime(p)})

\* the greatest prime strictly less than n (n > 2)
RefLastPrime(n) == CHOOSE p \in 2..(n - 1) :
                      RefIsPrime(p) /\ \A q \in (p + 1)..(n - 1) : ~RefIsPrime(q)

\* the final reports printed so far (lines 135-139 unsliced, 190-194 sliced)
FinalReports == {output[k] : k \in {x \in DOMAIN output : output[x].kind = "final"}}

Reported == FinalReports # {}

\* the jobs between their workerSync and the end of their update of the
\* shared counters
InMerge == {i \in 1..Len(jobs) : jobs[i].pc \in {"load", "store", "last"}}

\* C1: the count of every final report is pi(max_prime): the number of
\* primes strictly below the bound, the prime 2 counted once, in sliced and
\* unsliced runs and for every pool size
C1_TotalIsPi == \A r \in FinalReports : r.count = RefPi(max_prime)

\* C1's case: a sliced run on a pool of two or more threads reported after
\* its slices were sieved out of order, and an unsliced one is covered by
\* the same invariant
C1_Witness ==
    /\ Reported
    /\ num_slices >= 3
    /\ pool.size >= 2
    /\ overtaken
    /\ \A r \in FinalReports : r.count = RefPi(max_prime) /\ r.count > InitialCount

\* C2 (as claimed): the last prime of every final report is the greatest
\* prime strictly below max_prime
C2_LastIsGreatestPrime ==
    \A r \in FinalReports : r.last = RefLastPrime(max_prime)

\* the results of the run that merges slice 1, then 2, ... on one thread
RECURSIVE SequentialMerge(_, _, _, _, _)
SequentialMerge(base, plan, n, s, acc) ==
    IF s > plan.slices
    THEN acc
    ELSE LET r == SliceResult(base, plan.base * s,
                              IF s = plan.slices THEN n - plan.base * s
                                                 ELSE plan.base)
         IN  SequentialMerge(base, plan, n, s + 1, <<acc[1] + r[1], r[2]>>)

SequentialResult(n) ==
    LET plan == SlicePlan(n)
        base == BuildBaseSieve(plan.base)
    IN  SequentialMerge(base, plan, n, 1,
                        BaseScan(base, 3, plan.base, n, <<InitialCount, 0>>))

\* C3: determinism: whatever the pool size and the interleaving of the
\* slice jobs, a final report carries the count and the last prime of the
\* sequential run on the same max_prime
C3_Deterministic ==
    \A r \in FinalReports : <<r.count, r.last>> = SequentialResult(max_prime)

\* C3's case: the report of a run on a pool of threads whose slices
\* finished their sieving out of submission order
C3_Witness ==
    /\ Reported
    /\ overtaken
    /\ pool.size >= 2
    /\ num_slices >= 3

\* C4: merges exclude each other: never two jobs (worker jobs or the inline
\* last slice) between workerSync and the end of their update; and once a
\* job context exists the shared counters change only by a step of a job
\* that is in that section
C4_MergeExclusion ==
    /\ [](Cardinality(InMerge) <= 1)
    /\ [][(jobs # <<>> /\ (prime_count' # prime_count \/ last_prime' # last_prime))
            => \E i \in InMerge : jobs'[i].pc # jobs[i].pc]_vars

\* C4's case: a worker job is in its merge while the inline last slice,
\* sieved already, waits at workerSync
C4_Witness ==
    \E i \in InMerge :
        /\ jobs[i].thread = "worker"
        /\ \E j \in (i + 1)..Len(jobs) :
              jobs[j].pc = "sync" /\ jobs[j].thread = "main" /\ pool.size > 0

\* C5: when the final totals are reported every slice job 1..num_slices has
\* been made, has merged exactly once and has completed; slices below the
\* last were queued and the last ran inline
C5_ReportAfterAllMerged ==
    Reported =>
        /\ Len(jobs) = num_slices
        /\ \A i \in 1..num_slices :
              /\ jobs[i].merges = 1
              /\ jobs[i].pc = "done"
              /\ jobs[i].mode = IF i = num_slices THEN "inline" ELSE "wait"

\* C5's case: the report of a sliced run with queued slices on a pool
C5_Witness ==
    /\ Reported
    /\ num_slices >= 3
    /\ pool.size >= 1
    /\ \A i \in 1..num_slices : jobs[i].merges = 1

\* b is x rounded up to a multiple of 16
IsRoundedUp16(b, x) == b % 16 = 0 /\ b >= x /\ b - 16 < x

\* q is the quotient a / b rounded up
IsCeilQuotient(q, a, b) == q * b >= a /\ (q - 1) * b < a

\* b is the root of n rounded up to an integer and then to a multiple of 16
IsRootBase(b, n) ==
    \E r \in 0..n : r * r >= n /\ (r - 1) * (r - 1) < n /\ IsRoundedUp16(b, r)

\* C6: the plan follows the thresholds exactly: above Quadrillion and below
\* MinValue the value is rejected; above Trillion the base is the rounded
\* root; above FixedBase it is FixedBase; from MinValue on it is the value
\* rounded up with no slice; the slice count is ceil((N - B) / B); a value
\* equal to a threshold takes the lower branch
C6_PlanByThresholds ==
    (pc \notin {"args", "plan"} /\ args.argc >= 2) =>
        LET n == args.value
            b == max_base_prime
            c == num_slices
        IN  /\ (n > Quadrillion \/ n < MinValue) => (pc = "exit" /\ exit_code = 1)
            /\ (Trillion < n /\ n <= Quadrillion) =>
                  (IsRootBase(b, n) /\ IsCeilQuotient(c, n - b, b))
            /\ (FixedBase < n /\ n <= Trillion) =>
                  (b = FixedBase /\ IsCeilQuotient(c, n - b, b))
            /\ (MinValue <= n /\ n <= FixedBase) =>
                  (IsRoundedUp16(b, n) /\ c = 0)

\* C6's case: the plan of the first value above Trillion, whose base is the
\* rounded root and smaller than FixedBase
C6_Witness ==
    /\ pc = "workers"
    /\ max_prime = Trillion + 1
    /\ max_base_prime = FixedBase - 16
    /\ num_slices * max_base_prime >= max_prime - max_base_prime

\* an argv the program must reject
InvalidArgs ==
    /\ args.argc >= 2
    /\ \/ args.value < MinValue
       \/ args.value > Quadrillion
       \/ (args.argc > 2 /\ (args.workers < 0 \/ args.workers > MaxWorkers))

\* C7: an out-of-range max_value or num_workers ends the run with exit
\* code 1 before any computation: no base sieve, no pool, no job, no totals;
\* MinValue and Quadrillion themselves are accepted
C7_RejectsInvalid ==
    /\ InvalidArgs =>
          /\ pc \in {"args", "plan", "workers", "exit"}
          /\ pc = "exit" => exit_code = 1
          /\ primes_mem = "none"
          /\ primes = <<>>
          /\ ~pool.live
          /\ jobs = <<>>
          /\ \A k \in DOMAIN output : output[k].kind \notin {"base", "final", "processing"}
    /\ (args.argc >= 2 /\ ~InvalidArgs /\ args.value \in {MinValue, Quadrillion})
          => exit_code # 1
    /\ (args.argc >= 2 /\ args.value \in {MinValue - 1, Quadrillion + 1})
          => pc \in {"args", "plan", "exit"}

\* C7's case: a run with an accepted value and one worker too many has
\* exited with code 1
C7_Witness ==
    /\ pc = "exit"
    /\ exit_code = 1
    /\ args.argc > 2
    /\ args.workers = MaxWorkers + 1
    /\ args.value >= MinValue
    /\ args.value <= Quadrillion
    /\ primes_mem = "none"

\* the slice sieves allocated and not yet freed
LiveSieves == {i \in 1..Len(jobs) : jobs[i].sieve = "live"}

\* C8: at most num_workers + 1 transient slice sieves exist at a time
C8_Backpressure == Cardinality(LiveSieves) <= num_workers + 1

\* C8's case: every worker of a pool of two or more holds a slice sieve and
\* so does the inline last slice
C8_Witness ==
    /\ num_workers >= 2
    /\ Cardinality(LiveSieves) = num_workers + 1
    /\ \E i \in LiveSieves : jobs[i].thread = "main"

\* C9: under fair scheduling every accepted run reaches its final report
\* and returns 0: no job waits forever at workerSync and main waits forever
\* neither for a free worker nor in workersWaitAllJobs
C9_Terminates == (pc = "base") ~> (pc = "exit" /\ exit_code = 0 /\ Reported)

\* C9's case: a run whose queued slices had to wait for the only worker has
\* reported and returned
C9_Witness ==
    /\ pc = "exit"
    /\ exit_code = 0
    /\ Reported
    /\ pool.size = 1
    /\ num_slices >= 3
    /\ \A i \in 1..num_slices : jobs[i].pc = "done"

\* C10 (as claimed): a merge adds the slice's count to the shared count and
\* leaves in the shared last prime the greater of its old value and the
\* slice's largest unmarked value, so that it never decreases
C10_MergeKeepsMax ==
    [][\A i \in 1..Len(jobs) :
         /\ (jobs[i].pc = "store" /\ jobs'[i].pc = "last")
               => prime_count' = prime_count + jobs[i].num
         /\ (jobs[i].pc = "last" /\ jobs'[i].pc = "free")
               => (last_prime' = Max(last_prime, jobs[i].last)
                   /\ last_prime' >= last_prime)]_vars

\* the merge of job i has begun: the job is past its workerSync
MergeBegun(i) == jobs[i].pc \in {"load", "store", "last", "free", "done"}

\* the merge of job i is complete: both shared counters are written
MergeComplete(i) == jobs[i].pc \in {"free", "done"} /\ jobs[i].merges = 1

\* C11: merges happen in submission order: when the merge of slice j has
\* begun, the merge of every slice i < j is complete, whatever the order in
\* which the slices were sieved, the inline last slice included
C11_MergeOrder ==
    \A j \in 1..Len(jobs) :
       MergeBegun(j) => \A i \in 1..(j - 1) : MergeComplete(i)

\* C11's case: slices were sieved out of submission order on a pool of two
\* or more threads, and the inline last slice is in its merge after every
\* earlier slice has merged
C11_Witness ==
    /\ overtaken
    /\ pool.size >= 2
    /\ num_slices >= 3
    /\ Len(jobs) = num_slices
    /\ jobs[num_slices].pc = "store"
    /\ jobs[num_slices].thread = "main"
    /\ \A i \in 1..(num_slices - 1) : MergeComplete(i)

\* the end of the window [start, start + values) of job i
WindowEnd(i) == jobs[i].start + jobs[i].values

\* C12: the slice windows partition the range above the base: window i
\* starts at max_base_prime * i, a multiple of 16 not below the base; the
\* windows below the last hold max_base_prime values and the last one the
\* 1..max_base_prime values left below max_prime; each window begins where
\* the one before it ends, the first at max_base_prime, and once the loop
\* has made them all the last ends at max_prime, so that they are pairwise
\* disjoint and their union is max_base_prime..(max_prime - 1)
C12_WindowsPartition ==
    /\ Len(jobs) <= num_slices
    /\ \A i \in 1..Len(jobs) :
          /\ jobs[i].start = max_base_prime * i
          /\ jobs[i].start % 16 = 0
          /\ jobs[i].start >= max_base_prime
          /\ jobs[i].values >= 1
          /\ jobs[i].values <= max_base_prime
          /\ (i < num_slices) => jobs[i].values = max_base_prime
          /\ (i = num_slices) =>
                jobs[i].values = max_prime - max_base_prime * num_slices
          /\ \A j \in (i + 1)..Len(jobs) : WindowEnd(i) <= jobs[j].start
          /\ jobs[i].start = IF i = 1 THEN max_base_prime ELSE WindowEnd(i - 1)
    /\ (num_slices > 0 /\ Len(jobs) = num_slices)
          => WindowEnd(num_slices) = max_prime

\* C12's case: all the windows of a run of three or more slices are made
\* and the last one is shorter than the base
C12_Witness ==
    /\ num_slices >= 3
    /\ Len(jobs) = num_slices
    /\ jobs[num_slices].values < max_base_prime
    /\ jobs[num_slices].values >= 1
    /\ jobs[num_slices].start + jobs[num_slices].values = max_prime

\* the odd primes of lo..(hi - 1)
OddPrimes(lo, hi) == {v \in lo..(hi - 1) : v % 2 = 1 /\ RefIsPrime(v)}

\* the base scan of lines 119-123 is over
BaseScanned == primes_mem # "none" /\ pc # "scan"

\* C13: the padding up to a multiple of 16 is never counted: the base scan
\* counts the odd primes of 3..min(max_base_prime, max_prime) - 1 and every
\* slice those of its window start..start + values - 1, the last prime of
\* each lying in the same range; the shared count changes only by the base
\* scan or by a job adding its slice's count, and once the base scan has
\* set it the shared last prime is below max_prime
C13_PaddingNotCounted ==
    /\ [](BaseScanned => last_prime < max_prime)
    /\ [](pc = "report_base" =>
            LET found == OddPrimes(3, IF max_base_prime < max_prime
                                      THEN max_base_prime ELSE max_prime)
            IN  /\ prime_count = InitialCount + Cardinality(found)
                /\ last_prime \in found)
    /\ [](\A i \in 1..Len(jobs) :
            jobs[i].pc = "sync" =>
               LET found == OddPrimes(jobs[i].start,
                                      jobs[i].start + jobs[i].values)
               IN  /\ jobs[i].start + jobs[i].values <= max_prime
                   /\ jobs[i].num = Cardinality(found)
                   /\ jobs[i].last \in found \cup {0})
    /\ [][prime_count' # prime_count =>
            \/ pc = "scan"
            \/ \E i \in 1..Len(jobs) :
                  /\ jobs[i].pc = "store"
                  /\ jobs'[i].pc = "last"
                  /\ prime_count' = prime_count + jobs[i].num]_vars

\* C13's case: the last slice has been scanned, its window ends short of a
\* multiple of 16 and the padding after it holds a prime that the slice's
\* sieve leaves unmarked
C13_Witness ==
    /\ num_slices >= 2
    /\ Len(jobs) = num_slices
    /\ jobs[num_slices].pc = "sync"
    /\ jobs[num_slices].num > 0
    /\ \E c \in jobs[num_slices].values..(RoundUp16(jobs[num_slices].values) - 1) :
          /\ c % 2 = 1
          /\ RefIsPrime(jobs[num_slices].start + c)
          /\ IsUnmarked(jobs[num_slices].bits, c)

\* C14: the base sieve is correct: once built for a bound that is a
\* multiple of 16, the bit of 1 is set and the bit of every odd v in
\* 3..max_base_prime - 1 is unset exactly when v is prime; marking from
\* tprime * tprime, for tprime * tprime < max_base_prime only, loses no
\* composite
C14_BaseSieveCorrect ==
    primes_mem = "live" =>
       /\ max_base_prime % 16 = 0
       /\ DOMAIN primes = 0..((max_base_prime \div 16) - 1)
       /\ ~IsUnmarked(primes, 1)
       /\ \A v \in 3..(max_base_prime - 1) :
             v % 2 = 1 => (IsUnmarkedBase(primes, v) <=> RefIsPrime(v))

\* C14's case: a base sieve is built whose last 16 values hold the square
\* of a prime, which is marked, and a prime, which is not
C14_Witness ==
    /\ primes_mem = "live"
    /\ pc = "scan"
    /\ \E t \in 5..max_base_prime :
          /\ RefIsPrime(t)
          /\ t * t < max_base_prime
          /\ t * t + 16 > max_base_prime
          /\ ~IsUnmarked(primes, t * t)
    /\ \E v \in (max_base_prime - 16)..(max_base_prime - 1) :
          v % 2 = 1 /\ RefIsPrime(v) /\ IsUnmarked(primes, v)

\* the jobs that have just sieved their slice
Sieved == {i \in 1..Len(jobs) : jobs[i].pc = "sync"}

\* C15: the slice sieve is correct: the window starts at a multiple of 16 at
\* or above the base bound; the marking of each odd tprime from 3 below
\* ceil(sqrt(start + slice_count)) starts at the smallest odd multiple of
\* tprime that is at least start; and after the marking every odd value of
\* start..start + slice_count - 1 is unmarked exactly when it is prime, so
\* that no prime of the window is marked
C15_SliceSieveCorrect ==
    \A i \in Sieved :
       LET start == jobs[i].start
           slice_count == RoundUp16(jobs[i].values)
       IN  /\ start % 16 = 0
           /\ start >= max_base_prime
           /\ DOMAIN jobs[i].bits = 0..((slice_count \div 16) - 1)
           /\ \A t \in 3..(CeilSqrt(start + slice_count) - 1) :
                 t % 2 = 1 =>
                    LET first == start + FirstOffset(start, t)
                    IN  /\ first % t = 0
                        /\ first % 2 = 1
                        /\ first >= start
                        /\ first - 2 * t < start
           /\ \A c \in 1..(slice_count - 1) :
                 c % 2 = 1 =>
                    (IsUnmarked(jobs[i].bits, c) <=> RefIsPrime(start + c))

\* C15's case: a sieved slice whose window holds the square of a prime,
\* marked, and a prime, unmarked, with a factor whose first odd multiple is
\* the window's first odd value
C15_Witness ==
    \E i \in Sieved :
       /\ \E t \in 5..max_base_prime :
             /\ RefIsPrime(t)
             /\ t * t > jobs[i].start
             /\ t * t < jobs[i].start + jobs[i].values
             /\ ~IsUnmarked(jobs[i].bits, t * t - jobs[i].start)
       /\ \E t \in 3..max_base_prime : FirstOffset(jobs[i].start, t) = 1
       /\ \E c \in 1..(jobs[i].values - 1) :
             c % 2 = 1 /\ RefIsPrime(jobs[i].start + c)
                       /\ IsUnmarked(jobs[i].bits, c)

\* line 217: the bound on the factors tried in slice s
FactorLimit(s) == CeilSqrt(SliceStart(s) + RoundUp16(SliceValues(s)))

\* C16: the base covers every factor: in a sliced plan the square of the
\* base bound is at least max_prime, and for every slice 1..num_slices the
\* factor limit ceil(sqrt(start + slice_count)) is at most the base bound,
\* the padded end of the window being at most its square, so that every
\* tprime < limit looked up in the base sieve lies inside it
C16_BaseCoversFactors ==
    (pc = "workers" /\ num_slices > 0) =>
       /\ max_base_prime * max_base_prime >= max_prime
       /\ \A s \in 1..num_slices :
             /\ FactorLimit(s) <= max_base_prime
             /\ SliceStart(s) + RoundUp16(SliceValues(s))
                   <= max_base_prime * max_base_prime
             /\ \A t \in {3, FactorLimit(s) - 1} :
                   ByteIndex(t) < max_base_prime \div 16

\* C16's case: a plan above Trillion whose last window ends at the square of
\* the base bound, so that its factor limit is the base bound itself
C16_Witness ==
    /\ pc = "workers"
    /\ num_slices > 0
    /\ max_prime > Trillion
    /\ max_base_prime * max_base_prime = max_prime
    /\ FactorLimit(num_slices) = max_base_prime

\* the jobs that have yet to read the base sieve (lines 222 of prime_slice)
BaseReaders == {i \in 1..Len(jobs) : jobs[i].pc \in {"new", "run"}}

\* C17: the base sieve's lifecycle: while its storage is live no step
\* changes a bit of it; it is freed only after every slice job
\* 1..num_slices has been made and has finished; and no job that has yet to
\* read it exists once it is freed
C17_BaseLifecycle ==
    /\ [][primes_mem = "live" => primes' = primes]_vars
    /\ [][primes_mem = "freed" => (primes_mem' = "freed" /\ jobs' = jobs)]_vars
    /\ [](primes_mem = "freed" =>
             /\ Len(jobs) = num_slices
             /\ \A i \in 1..num_slices : jobs[i].pc = "done")
    /\ [](BaseReaders # {} => primes_mem = "live")

\* C17's case: the base sieve of a run of three or more slices on a pool of
\* two or more threads is freed after the slices were sieved out of order
C17_Witness ==
    /\ primes_mem = "freed"
    /\ num_slices >= 3
    /\ pool.size >= 2
    /\ overtaken
    /\ \A i \in 1..num_slices : jobs[i].pc = "done" /\ jobs[i].sieve = "freed"

\* the odd values below the range of the sieve under construction
OddValues == {v \in 1..(max_base_prime - 1) : v % 2 = 1}

\* C18: marking is exact: setting the bit of an odd v below the range
\* makes v marked and leaves every other odd value of the range, v - 2 and
\* v + 2 among them, as it was, so that the marked values are exactly those
\* that were marked one by one; the same holds for the base sieve's test
\* (lines 113, 120); and two distinct odd values never share a bit
C18_MarkingExact ==
    /\ [][marked' # marked =>
            LET v == marked'[Len(marked')]
            IN  /\ ~IsUnmarked(primes', v)
                /\ \A w \in OddValues \ {v} :
                      IsUnmarked(primes', w) <=> IsUnmarked(primes, w)]_vars
    /\ [](marked # <<>> =>
            \A w \in OddValues :
               /\ IsUnmarked(primes, w)
                     <=> (\A k \in 1..Len(marked) : marked[k] # w)
               /\ IsUnmarkedBase(primes, w) <=> IsUnmarked(primes, w))
    /\ [](\A v, w \in OddValues :
            v # w => <<ByteIndex(v), BitIndex(v)>> # <<ByteIndex(w), BitIndex(w)>>)

\* C18's case: two neighbouring odd values on either side of a byte
\* boundary are marked and their other neighbours are not
C18_Witness ==
    /\ Len(marked) = 2
    /\ marked[2] = marked[1] + 2
    /\ ByteIndex(marked[1]) # ByteIndex(marked[2])
    /\ ~IsUnmarked(primes, marked[1])
    /\ ~IsUnmarked(primes, marked[2])
    /\ IsUnmarked(primes, marked[1] - 2)
    /\ IsUnmarked(primes, marked[2] + 2)

\* C19 (as claimed): no int overflows: the base bound, the slice count and
\* the offsets of the marking loops, which stay below the padded slice
\* length plus twice a factor below the base bound, fit an int; and after
\* the progress step of a slice the sum slice * 100 + num_slices / 2 it
\* formed was at most IntMax and the percentage is in 0..100
C19_NoIntOverflow ==
    /\ max_base_prime <= IntMax - 2 * max_base_prime
    /\ num_slices <= IntMax
    /\ (pc = "loop" /\ num_slices > ProgressMin) =>
          /\ ~ProgressOverflows(slice - 1, num_slices)
          /\ progress_percent \in 0..100

\* the progress step has overflowed: the run of 10^15 has enqueued a slice
\* whose sum is above IntMax and holds a negative percentage
C19_Overflowed ==
    /\ pc = "loop"
    /\ num_slices > ProgressMin
    /\ ProgressOverflows(slice - 1, num_slices)
    /\ progress_percent < 0

\* C20 (as claimed): an allocation failure is fatal: once the allocation of
\* the base sieve, of a job context or of a slice sieve has returned NULL
\* the only step that follows is the end of the process, no step changes
\* the shared counters, and no final totals are printed
C20_AllocFailureFatal ==
    /\ [](failed_alloc # "none" => ~Reported)
    /\ [][failed_alloc # "none" =>
            /\ pc' = "crashed"
            /\ prime_count' = prime_count
            /\ last_prime' = last_prime]_vars

\* the sieve of a slice could not be allocated and its job has yet to
\* reach the store through NULL, while another job is inside its merge
C20_MergeBesideFailure ==
    /\ failed_alloc = "slice"
    /\ pc # "crashed"
    /\ \E i \in 1..Len(jobs) : jobs[i].pc = "null"
    /\ InMerge # {}

\* the store through NULL has landed and the run has printed final totals
\* after a failed allocation
C20_ReportedAfterFailure ==
    /\ failed_alloc # "none"
    /\ Reported
    /\ pc = "exit"
    /\ exit_code = 0

=============================================================================
